---- MODULE Spec2Model ----
(***************************************************************************)
(* Model of the deferred-effect command engine (src/node/context.rs:       *)
(* Context, NEXT_TIMER_TOKEN) and of the traffic counters (src/stats.rs:   *)
(* Stats) of sn_routing.                                                   *)
(*                                                                         *)
(* Context part: a fixed set of threads, each exclusively owning one       *)
(* Context at a time.  The only shared state is the atomic counter         *)
(* NEXT_TIMER_TOKEN and the receiving end of the event channel.            *)
(* schedule_timeout is two steps (the atomic fetch_add, then the push on   *)
(* the thread's own queue), so that other threads may run in between.      *)
(***************************************************************************)
EXTENDS Integers, Sequences, FiniteSets, TLC

VARIABLES
    NEXT_TIMER_TOKEN,   \* the static AtomicU64
    ctx,                \* ctx[t]: the Context thread t owns: [alive, command_queue]
    pc,                 \* pc[t]: "ready", or "schedule_timeout_push" inside schedule_timeout
    local,              \* local[t]: schedule_timeout's locals (duration, token) while inside it
    event_rx,           \* receiving half of the event channel: [open, buffer]
    result,             \* result[t]: what into_commands returned for t's last Context
    calls,              \* history: calls[t], the command-producing calls completed on t's Context
    returned,           \* history: returned[t], the tokens schedule_timeout returned to t
    event_log,          \* history: [sent: send_event calls, errors: error! lines logged]
    stats,              \* the node's Stats
    panicked,           \* a Stats method panicked (arithmetic overflow, overflow checks on)
    stats_log,          \* what Stats logged: [snapshots: msg_total at each snapshot, errors]
    hist,               \* history: numbers of Stats calls made so far
    last_call           \* history: the last Stats call, [op, arg]

ctx_vars == <<NEXT_TIMER_TOKEN, ctx, pc, local, event_rx, result, calls, returned, event_log>>
stats_vars == <<stats, panicked, stats_log, hist, last_call>>
vars == <<ctx_vars, stats_vars>>

----------------------------------------------------------------------------
(* Bounds of the model *)

MaxCalls   == 2
MaxTokens  == 3

Threads == {1, 2}

----------------------------------------------------------------------------
(* Input domains *)

Addrs     == {"a1", "a2"}
Messages  == {"m1"}
Durations == {50, 100}
Events    == {"e1"}

\* Command::SendMessage { recipients, delivery_group_size, message }
SendMessage(recipients, delivery_group_size, message) ==
    [type |-> "SendMessage", recipients |-> recipients,
     delivery_group_size |-> delivery_group_size, message |-> message]

\* Command::ScheduleTimeout { duration, token }
ScheduleTimeout(duration, token) ==
    [type |-> "ScheduleTimeout", duration |-> duration, token |-> token]

\* (recipients, delivery_group_size) arguments tried for send_message_to_targets:
\* the empty list, a one-element list, a list with a duplicate; sizes 0, 1 and
\* one larger than the list.
TargetsInputs == { <<<< >>, 0>>, <<<<"a1">>, 1>>, <<<<"a2", "a2">>, 3>> }

\* Hand-built commands tried for push_command.
PushInputs == { SendMessage(<<"a1", "a2">>, 2, "m1"), ScheduleTimeout(50, 0) }

----------------------------------------------------------------------------
(* Helpers modelling library calls *)

\* A push at the wrong end
VecPushFront(v, x) == <<x>> \o v

\* Vec::push
VecPush(v, x) == Append(v, x)

\* slice::from_ref
from_ref(x) == <<x>>

\* <[T]>::to_vec
to_vec(s) == s

\* AtomicU64::fetch_add(n): the value returned, and the value stored.  The
\* stored value wraps at 2^64; the counter starts at 0 and moves by 1 per call,
\* so no run of fewer than 2^64 calls reaches the wrap, and it is left out.
\* An add_fetch: the value after the increment is returned
fetch_add_ret_after(cur, n) == cur + n
fetch_add_ret(cur, n) == cur
\* A lost update: the old value is stored back
fetch_add_lost(cur, n) == cur
\* An increment by twice the amount
fetch_add_twice(cur, n) == cur + 2 * n
fetch_add_new(cur, n) == cur + n

\* Bound of the model: the commands held in queues and results, the calls of
\* schedule_timeout under way and the events sent so far
Load == LET RECURSIVE Sum(_)
            Sum(S) == IF S = {} THEN 0
                      ELSE LET t == CHOOSE x \in S : TRUE
                           IN Len(ctx[t].command_queue) + Len(result[t])
                              + (IF pc[t] = "ready" THEN 0 ELSE 1) + Sum(S \ {t})
        IN Sum(Threads) + event_log.sent
HasRoom == Load < MaxCalls

NoLocal == [duration |-> 0, token |-> 0]

----------------------------------------------------------------------------
(* Context *)

InitContext ==
    /\ NEXT_TIMER_TOKEN = 0
    /\ ctx = [t \in Threads |-> [alive |-> TRUE, command_queue |-> << >>]]
    /\ pc = [t \in Threads |-> "ready"]
    /\ local = [t \in Threads |-> NoLocal]
    /\ event_rx = [open |-> TRUE, buffer |-> << >>]
    /\ result = [t \in Threads |-> << >>]
    /\ calls = [t \in Threads |-> << >>]
    /\ returned = [t \in Threads |-> << >>]
    /\ event_log = [sent |-> 0, errors |-> 0]

\* Context::new, for the next handler invocation of thread t
new(t) ==
    /\ pc[t] = "ready"
    /\ ~ctx[t].alive
    /\ ctx' = [ctx EXCEPT ![t] = [alive |-> TRUE, command_queue |-> << >>]]
    /\ result' = [result EXCEPT ![t] = << >>]
    /\ calls' = [calls EXCEPT ![t] = << >>]
    /\ UNCHANGED <<NEXT_TIMER_TOKEN, pc, local, event_rx, returned, event_log, stats_vars>>

\* the state change of Context::push_command
Pushed(c, command) == [c EXCEPT !.command_queue = VecPush(c.command_queue, command)]

\* A push_command that draws a token when handed a ScheduleTimeout
push_command_drawing(t, command) ==
    /\ pc[t] = "ready"
    /\ ctx[t].alive
    /\ HasRoom
    /\ NEXT_TIMER_TOKEN < MaxTokens
    /\ ctx' = [ctx EXCEPT ![t] = Pushed(ctx[t], command)]
    /\ calls' = [calls EXCEPT ![t] = Append(@, [op |-> "push_command", command |-> command])]
    /\ NEXT_TIMER_TOKEN' = IF command.type = "ScheduleTimeout"
                           THEN NEXT_TIMER_TOKEN + 1 ELSE NEXT_TIMER_TOKEN
    /\ UNCHANGED <<pc, local, event_rx, result, returned, event_log, stats_vars>>

push_command(t, command) ==
    /\ pc[t] = "ready"
    /\ ctx[t].alive
    /\ HasRoom
    /\ ctx' = [ctx EXCEPT ![t] = Pushed(ctx[t], command)]
    /\ calls' = [calls EXCEPT ![t] = Append(@, [op |-> "push_command", command |-> command])]
    /\ UNCHANGED <<NEXT_TIMER_TOKEN, pc, local, event_rx, result, returned, event_log, stats_vars>>

\* A variant that caps delivery_group_size at the number of recipients
SentToTargetsCapped(c, recipients, delivery_group_size, message) ==
    Pushed(c, SendMessage(to_vec(recipients),
                          IF delivery_group_size > Len(recipients)
                             THEN Len(recipients) ELSE delivery_group_size,
                          message))

\* the state change of Context::send_message_to_targets
SentToTargets(c, recipients, delivery_group_size, message) ==
    Pushed(c, SendMessage(to_vec(recipients), delivery_group_size, message))

send_message_to_targets(t, recipients, delivery_group_size, message) ==
    /\ pc[t] = "ready"
    /\ ctx[t].alive
    /\ HasRoom
    /\ ctx' = [ctx EXCEPT ![t] = SentToTargets(ctx[t], recipients, delivery_group_size, message)]
    /\ calls' = [calls EXCEPT ![t] = Append(@,
                    [op |-> "send_message_to_targets", recipients |-> recipients,
                     delivery_group_size |-> delivery_group_size, message |-> message])]
    /\ UNCHANGED <<NEXT_TIMER_TOKEN, pc, local, event_rx, result, returned, event_log, stats_vars>>

\* The shorthand with a delivery group of none
SentToTargetNoGroup(c, recipient, message) ==
    SentToTargets(c, from_ref(recipient), 0, message)

\* the state change of Context::send_message_to_target
SentToTarget(c, recipient, message) == SentToTargets(c, from_ref(recipient), 1, message)

send_message_to_target(t, recipient, message) ==
    /\ pc[t] = "ready"
    /\ ctx[t].alive
    /\ HasRoom
    /\ ctx' = [ctx EXCEPT ![t] = SentToTarget(ctx[t], recipient, message)]
    /\ calls' = [calls EXCEPT ![t] = Append(@,
                    [op |-> "send_message_to_target", recipient |-> recipient,
                     message |-> message])]
    /\ UNCHANGED <<NEXT_TIMER_TOKEN, pc, local, event_rx, result, returned, event_log, stats_vars>>

\* Context::schedule_timeout, first step: let token = NEXT_TIMER_TOKEN.fetch_add(1, Relaxed)
schedule_timeout_fetch(t, duration) ==
    /\ pc[t] = "ready"
    /\ ctx[t].alive
    /\ HasRoom
    /\ NEXT_TIMER_TOKEN < MaxTokens
    /\ local' = [local EXCEPT ![t] =
                    [duration |-> duration, token |-> fetch_add_ret(NEXT_TIMER_TOKEN, 1)]]
    /\ NEXT_TIMER_TOKEN' = fetch_add_new(NEXT_TIMER_TOKEN, 1)
    /\ pc' = [pc EXCEPT ![t] = "schedule_timeout_push"]
    /\ UNCHANGED <<ctx, event_rx, result, calls, returned, event_log, stats_vars>>

\* A second step that reads the counter again for the command's token
schedule_timeout_push_reread(t) ==
    /\ pc[t] = "schedule_timeout_push"
    /\ ctx' = [ctx EXCEPT ![t] =
                  Pushed(ctx[t], ScheduleTimeout(local[t].duration, NEXT_TIMER_TOKEN - 1))]
    /\ returned' = [returned EXCEPT ![t] = Append(@, local[t].token)]
    /\ calls' = [calls EXCEPT ![t] = Append(@,
                    [op |-> "schedule_timeout", duration |-> local[t].duration,
                     ret |-> local[t].token])]
    /\ local' = [local EXCEPT ![t] = NoLocal]
    /\ pc' = [pc EXCEPT ![t] = "ready"]
    /\ UNCHANGED <<NEXT_TIMER_TOKEN, event_rx, result, event_log, stats_vars>>

\* Context::schedule_timeout, second step: push the command, return the token
schedule_timeout_push(t) ==
    /\ pc[t] = "schedule_timeout_push"
    /\ ctx' = [ctx EXCEPT ![t] =
                  Pushed(ctx[t], ScheduleTimeout(local[t].duration, local[t].token))]
    /\ returned' = [returned EXCEPT ![t] = Append(@, local[t].token)]
    /\ calls' = [calls EXCEPT ![t] = Append(@,
                    [op |-> "schedule_timeout", duration |-> local[t].duration,
                     ret |-> local[t].token])]
    /\ local' = [local EXCEPT ![t] = NoLocal]
    /\ pc' = [pc EXCEPT ![t] = "ready"]
    /\ UNCHANGED <<NEXT_TIMER_TOKEN, event_rx, result, event_log, stats_vars>>

\* Context::into_commands: the Context is consumed, its queue moved out
into_commands(t) ==
    /\ pc[t] = "ready"
    /\ ctx[t].alive
    /\ result' = [result EXCEPT ![t] = ctx[t].command_queue]
    /\ ctx' = [ctx EXCEPT ![t] = [alive |-> FALSE, command_queue |-> << >>]]
    /\ UNCHANGED <<NEXT_TIMER_TOKEN, pc, local, event_rx, calls, returned, event_log, stats_vars>>

\* mpsc::UnboundedSender::send: Ok (FALSE) and the value queued, or Err (TRUE)
\* and the value dropped when the receiver is closed
SendIsErr(rx) == ~rx.open
SendEffect(rx, event) == IF rx.open THEN [rx EXCEPT !.buffer = Append(@, event)] ELSE rx

\* A send_event that gives up the handler's queue when the send fails
send_event_abort(t, event) ==
    /\ pc[t] = "ready"
    /\ ctx[t].alive
    /\ HasRoom
    /\ event_rx' = SendEffect(event_rx, event)
    /\ event_log' = [sent |-> event_log.sent + 1,
                     errors |-> event_log.errors + IF SendIsErr(event_rx) THEN 1 ELSE 0]
    /\ ctx' = IF SendIsErr(event_rx)
              THEN [ctx EXCEPT ![t] = [alive |-> FALSE, command_queue |-> << >>]]
              ELSE ctx
    /\ UNCHANGED <<NEXT_TIMER_TOKEN, pc, local, result, calls, returned, stats_vars>>

\* Context::send_event
send_event(t, event) ==
    /\ pc[t] = "ready"
    /\ ctx[t].alive
    /\ HasRoom
    /\ event_rx' = SendEffect(event_rx, event)
    /\ event_log' = [sent |-> event_log.sent + 1,
                     errors |-> event_log.errors + IF SendIsErr(event_rx) THEN 1 ELSE 0]
    /\ UNCHANGED <<NEXT_TIMER_TOKEN, ctx, pc, local, result, calls, returned, stats_vars>>

\* the consumer of the event channel takes one event
recv_event ==
    /\ event_rx.open
    /\ event_rx.buffer # << >>
    /\ event_rx' = [event_rx EXCEPT !.buffer = Tail(@)]
    /\ UNCHANGED <<NEXT_TIMER_TOKEN, ctx, pc, local, result, calls, returned, event_log, stats_vars>>

\* the consumer closes (drops) the receiving half
close_event_rx ==
    /\ event_rx.open
    /\ event_rx' = [open |-> FALSE, buffer |-> << >>]
    /\ UNCHANGED <<NEXT_TIMER_TOKEN, ctx, pc, local, result, calls, returned, event_log, stats_vars>>

NextContext ==
    \/ \E t \in Threads : new(t)
    \/ \E t \in Threads, command \in PushInputs : push_command(t, command)
    \/ \E t \in Threads, r \in Addrs, m \in Messages : send_message_to_target(t, r, m)
    \/ \E t \in Threads, in \in TargetsInputs, m \in Messages :
          send_message_to_targets(t, in[1], in[2], m)
    \/ \E t \in Threads, d \in Durations : schedule_timeout_fetch(t, d)
    \/ \E t \in Threads : schedule_timeout_push(t)
    \/ \E t \in Threads : into_commands(t)
    \/ \E t \in Threads, e \in Events : send_event(t, e)
    \/ recv_event
    \/ close_event_rx

----------------------------------------------------------------------------
(* Stats *)

\* Bounds of the model
MaxStatCalls == 3
MaxTotal     == 1001
MaxSide      == 1

\* const MSG_LOG_COUNT: usize = 500
MSG_LOG_COUNT == 500

\* core::GROUP_SIZE, the length of Stats::routes.  It is imported by stats.rs
\* and defined in core, outside the files modelled here.
GROUP_SIZE == 8

\* A u64 is held as four 16-bit limbs, least significant first (TLC's integers
\* are 32 bits wide).
Limb == 65536
U64Zero == <<0, 0, 0, 0>>
U64Max  == <<Limb - 1, Limb - 1, Limb - 1, Limb - 1>>
U64Of(n) == <<n % Limb, (n \div Limb) % Limb, 0, 0>>

\* a + b on u64: the wrapped sum and whether it overflowed
Add64(a, b) ==
    LET c1 == a[1] + b[1]
        c2 == a[2] + b[2] + (c1 \div Limb)
        c3 == a[3] + b[3] + (c2 \div Limb)
        c4 == a[4] + b[4] + (c3 \div Limb)
    IN [sum |-> <<c1 % Limb, c2 % Limb, c3 % Limb, c4 % Limb>>,
        overflow |-> c4 \div Limb > 0]

\* a <= b on u64
Leq64(a, b) ==
    \/ a = b
    \/ \E i \in 1..4 : a[i] < b[i] /\ \A j \in (i + 1)..4 : a[j] = b[j]

\* The message kinds classified
Requests == {"Refresh", "Get", "Put", "Post", "Delete", "GetAccountInfo"}
Responses == {"GetSuccess", "GetFailure", "PutSuccess", "PutFailure", "PostSuccess",
              "PostFailure", "DeleteSuccess", "DeleteFailure",
              "GetAccountInfoSuccess", "GetAccountInfoFailure"}
MessageContents == {"GetNodeName", "ExpectCloseNode", "GetCloseGroup", "ConnectionInfo",
                    "GetCloseGroupResponse", "GetNodeNameResponse", "Ack",
                    "GroupMessageHash", "UserMessagePart"}
\* "Other" stands for every DirectMessage variant the `_` arm matches
DirectMessages == {"NodeIdentify", "NewNode", "ConnectionUnneeded", "Other"}

\* route: u8
RouteInputs == {0, GROUP_SIZE - 1, GROUP_SIZE, 255}
\* len: usize (64 bits): 0, 42, 2^63 and usize::MAX
LenInputs == {U64Zero, U64Of(42), <<0, 0, 0, Limb \div 2>>, U64Max}

\* The per-kind message counters of Stats
KindFields ==
    {"msg_direct_node_identify", "msg_direct_new_node", "msg_direct_connection_unneeded",
     "msg_get", "msg_put", "msg_post", "msg_delete", "msg_get_account_info",
     "msg_get_close_group", "msg_get_node_name", "msg_expect_close_node", "msg_refresh",
     "msg_connection_info", "msg_get_success", "msg_get_failure", "msg_put_success",
     "msg_put_failure", "msg_post_success", "msg_post_failure", "msg_delete_success",
     "msg_delete_failure", "msg_get_account_info_success", "msg_get_account_info_failure",
     "msg_get_close_group_rsp", "msg_get_node_name_rsp", "msg_ack", "msg_hash"}

\* The usize counters of Stats that its methods touch
UsizeFields == KindFields \cup {"msg_other", "msg_total", "unacked_msgs"}

\* #[derive(Default)] struct Stats.  The five pub gauges (cur_routing_table_size,
\* ...) are written by no method of Stats and are left out.
StatsDefault ==
    [f \in UsizeFields \cup {"routes", "msg_total_bytes"} |->
        CASE f = "routes" -> [i \in 0..(GROUP_SIZE - 1) |-> 0]
          [] f = "msg_total_bytes" -> U64Zero
          [] OTHER -> 0]

InitStats ==
    /\ stats = StatsDefault
    /\ panicked = FALSE
    /\ stats_log = [snapshots |-> << >>, errors |-> 0]
    /\ hist = [calls |-> 0, classified |-> 0, fragments |-> 0]
    /\ last_call = [op |-> "none", arg |-> 0]

\* self.<field> += 1 on a usize.  The addition overflows at 2^64 (usize on the
\* 64-bit targets), which no counter moving by 1 from 0 reaches in fewer than
\* 2^64 calls; that case is left out.
Bump(s, field) == [s EXCEPT ![field] = @ + 1]

\* A match whose Refresh arm counts into the Get counter
RequestFieldRefreshAsGet(request) ==
    CASE request = "Refresh" -> "msg_get"
      [] request = "Get" -> "msg_get"
      [] request = "Put" -> "msg_put"
      [] request = "Post" -> "msg_post"
      [] request = "Delete" -> "msg_delete"
      [] request = "GetAccountInfo" -> "msg_get_account_info"

\* match *request { ... }
RequestField(request) ==
    CASE request = "Refresh" -> "msg_refresh"
      [] request = "Get" -> "msg_get"
      [] request = "Put" -> "msg_put"
      [] request = "Post" -> "msg_post"
      [] request = "Delete" -> "msg_delete"
      [] request = "GetAccountInfo" -> "msg_get_account_info"

\* match *response { ... }
ResponseField(response) ==
    CASE response = "GetSuccess" -> "msg_get_success"
      [] response = "GetFailure" -> "msg_get_failure"
      [] response = "PutSuccess" -> "msg_put_success"
      [] response = "PutFailure" -> "msg_put_failure"
      [] response = "PostSuccess" -> "msg_post_success"
      [] response = "PostFailure" -> "msg_post_failure"
      [] response = "DeleteSuccess" -> "msg_delete_success"
      [] response = "DeleteFailure" -> "msg_delete_failure"
      [] response = "GetAccountInfoSuccess" -> "msg_get_account_info_success"
      [] response = "GetAccountInfoFailure" -> "msg_get_account_info_failure"

\* A match whose UserMessagePart arm counts the fragment as uncategorised
RoutingFieldNoSkip(content) ==
    CASE content = "GetNodeName" -> "msg_get_node_name"
      [] content = "ExpectCloseNode" -> "msg_expect_close_node"
      [] content = "GetCloseGroup" -> "msg_get_close_group"
      [] content = "ConnectionInfo" -> "msg_connection_info"
      [] content = "GetCloseGroupResponse" -> "msg_get_close_group_rsp"
      [] content = "GetNodeNameResponse" -> "msg_get_node_name_rsp"
      [] content = "Ack" -> "msg_ack"
      [] content = "GroupMessageHash" -> "msg_hash"
      [] content = "UserMessagePart" -> "msg_other"

\* match msg.content { ... }: the counter, or "return" for the arm that returns
RoutingField(content) ==
    CASE content = "GetNodeName" -> "msg_get_node_name"
      [] content = "ExpectCloseNode" -> "msg_expect_close_node"
      [] content = "GetCloseGroup" -> "msg_get_close_group"
      [] content = "ConnectionInfo" -> "msg_connection_info"
      [] content = "GetCloseGroupResponse" -> "msg_get_close_group_rsp"
      [] content = "GetNodeNameResponse" -> "msg_get_node_name_rsp"
      [] content = "Ack" -> "msg_ack"
      [] content = "GroupMessageHash" -> "msg_hash"
      [] content = "UserMessagePart" -> "return"

\* A match without the ConnectionUnneeded arm
DirectFieldNoUnneeded(msg) ==
    CASE msg = "NodeIdentify" -> "msg_direct_node_identify"
      [] msg = "NewNode" -> "msg_direct_new_node"
      [] OTHER -> "msg_other"

\* match *msg { ... }
DirectField(msg) ==
    CASE msg = "NodeIdentify" -> "msg_direct_node_identify"
      [] msg = "NewNode" -> "msg_direct_new_node"
      [] msg = "ConnectionUnneeded" -> "msg_direct_connection_unneeded"
      [] OTHER -> "msg_other"

\* An increment_msg_total that leaves the total as it was
IncrementedTotalNot(s) == s

\* increment_msg_total: self.msg_total += 1
IncrementedTotal(s) == Bump(s, "msg_total")

\* The test made on the total as it was before the increment
LogsSnapshotBefore(s) == (s.msg_total - 1) % MSG_LOG_COUNT = 0

\* increment_msg_total: if self.msg_total % MSG_LOG_COUNT == 0, after the increment
LogsSnapshot(s) == s.msg_total % MSG_LOG_COUNT = 0

\* Stats::increment_msg_total on s, with the four info! lines as one snapshot
increment_msg_total(s) ==
    LET s2 == IncrementedTotal(s)
    IN /\ stats' = s2
       /\ stats_log' = IF LogsSnapshot(s2)
                       THEN [stats_log EXCEPT !.snapshots = Append(@, s2.msg_total)]
                       ELSE stats_log

Called(op, arg, classified, fragment) ==
    /\ hist' = [calls |-> hist.calls + 1,
                classified |-> hist.classified + (IF classified THEN 1 ELSE 0),
                fragments |-> hist.fragments + (IF fragment THEN 1 ELSE 0)]
    /\ last_call' = [op |-> op, arg |-> arg]

\* A count_unacked that reports when the total is a multiple of MSG_LOG_COUNT
count_unacked_reporting ==
    /\ ~panicked
    /\ stats' = Bump(stats, "unacked_msgs")
    /\ stats_log' = IF stats.msg_total % MSG_LOG_COUNT = 0
                    THEN [stats_log EXCEPT !.snapshots = Append(@, stats.msg_total)]
                    ELSE stats_log
    /\ Called("count_unacked", 0, FALSE, FALSE)
    /\ UNCHANGED <<panicked, ctx_vars>>

\* Stats::count_unacked
count_unacked ==
    /\ ~panicked
    /\ stats' = Bump(stats, "unacked_msgs")
    /\ Called("count_unacked", 0, FALSE, FALSE)
    /\ UNCHANGED <<panicked, stats_log, ctx_vars>>

\* An index reduced into the array
RouteIndexWrapped(route) == route % GROUP_SIZE

\* route as usize
RouteIndex(route) == route

\* self.routes.get_mut(index) is Some
RouteInRange(s, index) == index \in DOMAIN s.routes

\* Stats::count_route
count_route(route) ==
    /\ ~panicked
    /\ IF RouteInRange(stats, RouteIndex(route))
       THEN /\ stats' = [stats EXCEPT !.routes[RouteIndex(route)] = @ + 1]
            /\ UNCHANGED stats_log
       ELSE /\ stats_log' = [stats_log EXCEPT !.errors = @ + 1]
            /\ UNCHANGED stats
    /\ Called("count_route", route, FALSE, FALSE)
    /\ UNCHANGED <<panicked, ctx_vars>>

\* Stats::count_request
count_request(request) ==
    /\ ~panicked
    /\ increment_msg_total(Bump(stats, RequestField(request)))
    /\ Called("count_request", request, TRUE, FALSE)
    /\ UNCHANGED <<panicked, ctx_vars>>

\* Stats::count_response
count_response(response) ==
    /\ ~panicked
    /\ increment_msg_total(Bump(stats, ResponseField(response)))
    /\ Called("count_response", response, TRUE, FALSE)
    /\ UNCHANGED <<panicked, ctx_vars>>

\* Stats::count_routing_message
count_routing_message(content) ==
    /\ ~panicked
    /\ IF RoutingField(content) = "return"
       THEN UNCHANGED <<stats, stats_log>>
       ELSE increment_msg_total(Bump(stats, RoutingField(content)))
    /\ Called("count_routing_message", content, TRUE, content = "UserMessagePart")
    /\ UNCHANGED <<panicked, ctx_vars>>

\* Stats::count_direct_message
count_direct_message(msg) ==
    /\ ~panicked
    /\ increment_msg_total(Bump(stats, DirectField(msg)))
    /\ Called("count_direct_message", msg, TRUE, FALSE)
    /\ UNCHANGED <<panicked, ctx_vars>>

\* Stats::count_bytes: self.msg_total_bytes += len as u64.  When the sum
\* exceeds u64::MAX the build decides: with overflow checks (debug) the
\* addition panics, without them (release) it wraps.
count_bytes(len) ==
    /\ ~panicked
    /\ LET r == Add64(stats.msg_total_bytes, len)
       IN \/ /\ stats' = [stats EXCEPT !.msg_total_bytes = r.sum]
             /\ UNCHANGED panicked
          \/ /\ r.overflow
             /\ panicked' = TRUE
             /\ UNCHANGED stats
    /\ Called("count_bytes", len, FALSE, FALSE)
    /\ UNCHANGED <<stats_log, ctx_vars>>

\* Any sequence of at most MaxStatCalls calls
StatsRoom == hist.calls < MaxStatCalls

NextStats ==
    \/ StatsRoom /\ count_unacked
    \/ \E route \in RouteInputs : StatsRoom /\ count_route(route)
    \/ \E request \in Requests : StatsRoom /\ count_request(request)
    \/ \E response \in Responses : StatsRoom /\ count_response(response)
    \/ \E content \in MessageContents : StatsRoom /\ count_routing_message(content)
    \/ \E msg \in DirectMessages : StatsRoom /\ count_direct_message(msg)
    \/ \E len \in LenInputs : StatsRoom /\ count_bytes(len)

\* Long runs: up to MaxTotal classified messages, with at most MaxSide calls
\* that do not raise the total in between
TotalRoom == stats.msg_total < MaxTotal
SideRoom == hist.calls - stats.msg_total < MaxSide

NextReport ==
    \/ TotalRoom /\ count_request("Get")
    \/ SideRoom /\ count_unacked
    \/ \E route \in {0, GROUP_SIZE} : SideRoom /\ count_route(route)
    \/ SideRoom /\ count_routing_message("UserMessagePart")
    \/ SideRoom /\ count_bytes(U64Of(42))

----------------------------------------------------------------------------
(* Specifications *)

Init == InitContext /\ InitStats

\* The Context of each thread and the shared token counter
Spec == Init /\ [][NextContext]_vars

\* Stats under any short sequence of calls
SpecStats == Init /\ [][NextStats]_vars

\* Stats under long runs of classified messages
SpecReport == Init /\ [][NextReport]_vars

----------------------------------------------------------------------------
(* Properties of Context and the token counter, checked under Spec *)

Last(s) == s[Len(s)]

\* The commands of t's Context: its queue, or what into_commands returned
Held(t) == IF ctx[t].alive THEN ctx[t].command_queue ELSE result[t]

\* The tokens thread t has drawn: those returned to it and the one fetched by
\* its call under way
DrawsOf(t) ==
    {returned[t][k] : k \in 1..Len(returned[t])}
        \cup (IF pc[t] = "ready" THEN {} ELSE {local[t].token})

\* The positions of t's Context filled by schedule_timeout calls
TimeoutCalls(t) == {i \in 1..Len(calls[t]) : calls[t][i].op = "schedule_timeout"}

\* C1: all tokens obtained by schedule_timeout calls, on any thread and in any
\* interleaving, are pairwise distinct: those returned to callers, those held
\* by calls under way, and those carried by the ScheduleTimeout commands the
\* calls queued.
TokensPairwiseDistinct ==
    /\ \A t, u \in Threads :
          \A i \in 1..Len(returned[t]), j \in 1..Len(returned[u]) :
             (t # u \/ i # j) => returned[t][i] # returned[u][j]
    /\ \A t, u \in Threads :
          pc[t] # "ready" =>
             /\ \A j \in 1..Len(returned[u]) : local[t].token # returned[u][j]
             /\ (u # t /\ pc[u] # "ready") => local[t].token # local[u].token
    /\ \A t, u \in Threads :
          \A i \in TimeoutCalls(t), j \in TimeoutCalls(u) :
             (t # u \/ i # j) => Held(t)[i].token # Held(u)[j].token

\* C1 witness: three tokens drawn, both threads holding some of them
TokensOnBothThreads ==
    /\ NEXT_TIMER_TOKEN = 3
    /\ \A t \in Threads : Len(returned[t]) >= 1
    /\ \E t \in Threads : TimeoutCalls(t) # {}

\* C2 as stated: of two sequential draws by one thread the second is exactly
\* one greater than the first, whatever the other threads do.
SequentialDrawsAdjacent ==
    \A t \in Threads :
       \A i \in 1..(Len(returned[t]) - 1) : returned[t][i + 1] = returned[t][i] + 1

\* C2 amended: of two sequential draws by one thread the second is strictly
\* greater than the first, and greater by exactly one plus the number of
\* tokens other threads drew in between.
SequentialDrawsIncrease ==
    \A t \in Threads :
       \A i \in 1..(Len(returned[t]) - 1) :
          LET lo == returned[t][i]
              hi == returned[t][i + 1]
              between == UNION {{x \in DrawsOf(u) : lo < x /\ x < hi} :
                                    u \in Threads \ {t}}
          IN /\ lo < hi
             /\ hi = lo + 1 + Cardinality(between)

\* C2 witness: a thread drew 0 and then 2, another thread drew 1 in between
DrawsInterleaved ==
    \E t \in Threads, u \in Threads :
       /\ t # u
       /\ returned[t] = <<0, 2>>
       /\ returned[u] = <<1>>

\* What the k-th call on a Context is to leave in its queue
ExpectedCommand(call) ==
    CASE call.op = "push_command" -> call.command
      [] call.op = "send_message_to_target" ->
            [type |-> "SendMessage", recipients |-> <<call.recipient>>,
             delivery_group_size |-> 1, message |-> call.message]
      [] call.op = "send_message_to_targets" ->
            [type |-> "SendMessage", recipients |-> call.recipients,
             delivery_group_size |-> call.delivery_group_size, message |-> call.message]
      [] call.op = "schedule_timeout" ->
            [type |-> "ScheduleTimeout", duration |-> call.duration, token |-> call.ret]

\* C3: into_commands returns as many commands as calls were made on the
\* Context, the i-th being the command of the i-th call.
QueueFidelity ==
    \A t \in Threads :
       ~ctx[t].alive =>
          /\ Len(result[t]) = Len(calls[t])
          /\ \A i \in 1..Len(calls[t]) : result[t][i] = ExpectedCommand(calls[t][i])

\* C3 witness: into_commands returned two commands made by different operations
TwoCommandsReturned ==
    \E t \in Threads :
       /\ ~ctx[t].alive
       /\ Len(result[t]) = 2
       /\ calls[t][1].op # calls[t][2].op
       /\ result[t][1] # result[t][2]

\* The Context after the single-recipient send of message to r
ShorthandResult(c, r, message) ==
    [c EXCEPT !.command_queue =
        Append(@, [type |-> "SendMessage", recipients |-> <<r>>,
                   delivery_group_size |-> 1, message |-> message])]

\* C4: send_message_to_target(r, m) and send_message_to_targets([r], 1, m)
\* leave the Context in the same state: the prior queue with one SendMessage
\* (recipients [r], delivery_group_size 1, message m) appended.
ShorthandEquivalence ==
    [][\A t \in Threads :
          (Len(calls'[t]) = Len(calls[t]) + 1) =>
             LET call == Last(calls'[t])
             IN /\ call.op = "send_message_to_target" =>
                      ctx'[t] = ShorthandResult(ctx[t], call.recipient, call.message)
                /\ (/\ call.op = "send_message_to_targets"
                    /\ Len(call.recipients) = 1
                    /\ call.delivery_group_size = 1) =>
                      ctx'[t] = ShorthandResult(ctx[t], call.recipients[1], call.message)]_vars

\* C4 witness: one queue holds the command of send_message_to_target(r, m)
\* and, after it, that of send_message_to_targets([r], 1, m)
ShorthandBothWays ==
    \E t \in Threads :
       /\ ctx[t].alive
       /\ Len(calls[t]) = 2
       /\ calls[t][1].op = "send_message_to_target"
       /\ calls[t][2].op = "send_message_to_targets"
       /\ calls[t][2].recipients = <<calls[t][1].recipient>>
       /\ calls[t][2].delivery_group_size = 1
       /\ Len(ctx[t].command_queue) = 2
       /\ ctx[t].command_queue[1] = ctx[t].command_queue[2]

\* C5: the ScheduleTimeout commands of schedule_timeout calls on one Context
\* stand in the queue at the places of their calls, each with its call's
\* duration and the token returned to the caller, the tokens strictly
\* increasing in queue order, whatever the other threads draw meanwhile.
TimeoutsInCallOrder ==
    \A t \in Threads :
       /\ \A i \in TimeoutCalls(t) :
             /\ i <= Len(Held(t))
             /\ Held(t)[i].type = "ScheduleTimeout"
             /\ Held(t)[i].duration = calls[t][i].duration
             /\ Held(t)[i].token = calls[t][i].ret
             /\ \E k \in 1..Len(returned[t]) : returned[t][k] = calls[t][i].ret
       /\ \A i, j \in TimeoutCalls(t) : i < j => Held(t)[i].token < Held(t)[j].token

\* C5 witness: one Context holds two timeouts, of 100 then 50, whose tokens
\* are not adjacent because another thread drew in between
TwoTimeoutsWithGap ==
    \E t \in Threads :
       /\ ctx[t].alive
       /\ TimeoutCalls(t) = {1, 2}
       /\ ctx[t].command_queue[1].duration = 100
       /\ ctx[t].command_queue[2].duration = 50
       /\ ctx[t].command_queue[2].token > ctx[t].command_queue[1].token + 1

\* C6: a send_event made when the receiver is closed returns normally: the
\* event is dropped, one error line is logged, and the Contexts, their queues,
\* the results, the threads' positions and the token counter are as before, so
\* every later operation finds the state it would have found with the sink open.
ClosedSinkIgnored ==
    [][(event_log'.sent = event_log.sent + 1 /\ ~event_rx.open) =>
          /\ ctx' = ctx
          /\ pc' = pc
          /\ result' = result
          /\ NEXT_TIMER_TOKEN' = NEXT_TIMER_TOKEN
          /\ event_rx' = event_rx
          /\ event_log'.errors = event_log.errors + 1]_vars

\* C6 witness: an event was dropped on the closed sink, and a live Context
\* holds a queued command
DroppedEventThenCommand ==
    /\ ~event_rx.open
    /\ event_log.errors = 1
    /\ \E t \in Threads : ctx[t].alive /\ Len(ctx[t].command_queue) = 1

----------------------------------------------------------------------------
(* Properties of Stats, checked under SpecStats and SpecReport *)

\* C7: msg_total is the number of calls of count_request, count_response,
\* count_routing_message and count_direct_message, less the
\* count_routing_message calls given a UserMessagePart.
TotalIsClassifiedCalls ==
    stats.msg_total = hist.classified - hist.fragments

\* C7 witness: a fragment was skipped among counted messages
FragmentAmongCounted ==
    /\ hist.fragments = 1
    /\ hist.classified = 3
    /\ stats.msg_total = 2

\* C8 as stated: no counter of Stats decreases from one state to the next.
CountersNeverDecrease ==
    [][/\ \A f \in UsizeFields : stats[f] <= stats'[f]
       /\ \A i \in DOMAIN stats.routes : stats.routes[i] <= stats'.routes[i]
       /\ Leq64(stats.msg_total_bytes, stats'.msg_total_bytes)]_vars

RouteBoundSafety ==
    [][(hist'.calls = hist.calls + 1 /\ last_call'.op = "count_route") =>
          LET k == last_call'.arg
          IN /\ ~panicked'
             /\ IF k \in 0..(GROUP_SIZE - 1)
                THEN stats' = [stats EXCEPT !.routes[k] = @ + 1]
                ELSE stats' = stats]_vars

\* C10 witness: a route out of range was reported after a route in range was
\* counted
RouteOutOfRangeSeen ==
    /\ last_call.op = "count_route"
    /\ last_call.arg = GROUP_SIZE
    /\ stats_log.errors = 1
    /\ stats.routes[GROUP_SIZE - 1] = 1

\* C16: the token counter starts at 0 and each draw takes the value before
\* its increment: the tokens drawn so far, by all threads and Contexts, are
\* exactly 0 .. N-1 where N is the number of draws, and the counter holds N;
\* once no call is under way these are the tokens returned.
TokensAreInitialSegment ==
    LET RECURSIVE Count(_)
        Count(S) == IF S = {} THEN 0
                    ELSE LET t == CHOOSE x \in S : TRUE
                         IN Len(returned[t]) + (IF pc[t] = "ready" THEN 0 ELSE 1)
                            + Count(S \ {t})
        N == Count(Threads)
    IN /\ NEXT_TIMER_TOKEN = N
       /\ UNION {DrawsOf(t) : t \in Threads} = 0..(N - 1)
       /\ (\A t \in Threads : pc[t] = "ready") =>
             UNION {{returned[t][k] : k \in 1..Len(returned[t])} : t \in Threads} = 0..(N - 1)

\* C16 witness: three calls have returned, on both threads, the first of them
\* with token 0
ThreeTokensReturned ==
    /\ \A t \in Threads : pc[t] = "ready"
    /\ Len(returned[1]) = 2
    /\ Len(returned[2]) = 1
    /\ returned[2][1] = 1
    /\ returned[1][1] = 0

\* C17: send_message_to_targets does no validation: whatever the recipients
\* (empty, with duplicates) and the delivery_group_size (0, above the number
\* of recipients), the call appends exactly one SendMessage command carrying
\* the three arguments verbatim, and has no outcome in which it is rejected.
TargetsVerbatim ==
    [][/\ \A t \in Threads :
             (/\ Len(calls'[t]) = Len(calls[t]) + 1
              /\ Last(calls'[t]).op = "send_message_to_targets") =>
                LET call == Last(calls'[t])
                IN /\ ctx'[t].alive
                   /\ ctx'[t].command_queue =
                         Append(ctx[t].command_queue,
                                [type |-> "SendMessage", recipients |-> call.recipients,
                                 delivery_group_size |-> call.delivery_group_size,
                                 message |-> call.message])
       /\ \A t \in Threads, in \in TargetsInputs, message \in Messages :
             (pc[t] = "ready" /\ ctx[t].alive) =>
                SentToTargets(ctx[t], in[1], in[2], message).command_queue =
                   Append(ctx[t].command_queue,
                          [type |-> "SendMessage", recipients |-> in[1],
                           delivery_group_size |-> in[2], message |-> message])]_vars

\* C17 witness: a queue holds the command of a call with no recipient and
\* group size 0, then that of a call with a duplicate recipient and group
\* size 3
UnvalidatedCommandsQueued ==
    \E t \in Threads :
       /\ ctx[t].alive
       /\ Len(calls[t]) = 2
       /\ ctx[t].command_queue =
             << [type |-> "SendMessage", recipients |-> << >>,
                 delivery_group_size |-> 0, message |-> "m1"],
                [type |-> "SendMessage", recipients |-> <<"a2", "a2">>,
                 delivery_group_size |-> 3, message |-> "m1"] >>

\* C21: the token counter moves only when a schedule_timeout call draws, and
\* then by exactly one; push_command (also of a hand-built ScheduleTimeout),
\* send_message_to_target, send_message_to_targets, new, into_commands and
\* send_event leave it unchanged.  A step changes the Context of at most one
\* thread, the one that acted, and send_event changes no command queue.
CounterAndQueueFrame ==
    [][/\ (NEXT_TIMER_TOKEN' # NEXT_TIMER_TOKEN) =>
             /\ NEXT_TIMER_TOKEN' = NEXT_TIMER_TOKEN + 1
             /\ \E t \in Threads :
                   /\ pc[t] = "ready"
                   /\ pc'[t] = "schedule_timeout_push"
                   /\ \A u \in Threads \ {t} : pc'[u] = pc[u]
       /\ \A t \in Threads :
             \* a call on t's Context completed: only schedule_timeout has drawn,
             \* and it drew at its first step
             /\ (Len(calls'[t]) = Len(calls[t]) + 1) =>
                   NEXT_TIMER_TOKEN' = NEXT_TIMER_TOKEN
             \* new and into_commands
             /\ (ctx'[t].alive # ctx[t].alive) => NEXT_TIMER_TOKEN' = NEXT_TIMER_TOKEN
             \* t's Context changes only by an operation on it
             /\ (ctx'[t] # ctx[t]) =>
                   /\ \/ Len(calls'[t]) = Len(calls[t]) + 1
                      \/ ctx'[t].alive # ctx[t].alive
                   /\ \A u \in Threads \ {t} : ctx'[u] = ctx[u]
       /\ (event_log'.sent # event_log.sent) =>
             /\ NEXT_TIMER_TOKEN' = NEXT_TIMER_TOKEN
             /\ ctx' = ctx
             /\ result' = result]_vars

\* C21 witness: one thread pushed a hand-built ScheduleTimeout while the other
\* thread's queue holds the command of the only token drawn
HandBuiltTimeoutBesideDrawn ==
    \E t, u \in Threads :
       /\ t # u
       /\ NEXT_TIMER_TOKEN = 1
       /\ Len(calls[t]) = 1
       /\ calls[t][1].op = "push_command"
       /\ ctx[t].command_queue = << [type |-> "ScheduleTimeout", duration |-> 50, token |-> 0] >>
       /\ Len(calls[u]) = 1
       /\ calls[u][1].op = "schedule_timeout"
       /\ Len(ctx[u].command_queue) = 1

\* C11: count_routing_message given a UserMessagePart leaves msg_total and
\* every per-kind counter (and every other field of Stats) unchanged, and
\* emits no snapshot.
FragmentSkip ==
    [][(/\ hist'.calls = hist.calls + 1
        /\ last_call'.op = "count_routing_message"
        /\ last_call'.arg = "UserMessagePart") =>
          /\ stats' = stats
          /\ stats_log' = stats_log
          /\ ~panicked']_vars

\* C11 witness: a fragment was given after two messages had been counted
FragmentAfterCounted ==
    /\ last_call.op = "count_routing_message"
    /\ last_call.arg = "UserMessagePart"
    /\ stats.msg_total = 2
    /\ stats.msg_ack = 1

\* C12 as stated: every Stats operation returns normally, for every input and
\* from every reachable state; no call panics.
NoStatsCallPanics == ~panicked

\* The counter each request and response kind is to raise
ExpectedUserCounter ==
    [Refresh |-> "msg_refresh", Get |-> "msg_get", Put |-> "msg_put",
     Post |-> "msg_post", Delete |-> "msg_delete",
     GetAccountInfo |-> "msg_get_account_info",
     GetSuccess |-> "msg_get_success", GetFailure |-> "msg_get_failure",
     PutSuccess |-> "msg_put_success", PutFailure |-> "msg_put_failure",
     PostSuccess |-> "msg_post_success", PostFailure |-> "msg_post_failure",
     DeleteSuccess |-> "msg_delete_success", DeleteFailure |-> "msg_delete_failure",
     GetAccountInfoSuccess |-> "msg_get_account_info_success",
     GetAccountInfoFailure |-> "msg_get_account_info_failure"]

\* C13: count_request(r) and count_response(r) add one to the counter of r's
\* kind and one to msg_total, and change no other field (msg_total_bytes
\* included); so Get, GetSuccess, count_bytes(42) on a fresh Stats give
\* msg_get = 1, msg_get_success = 1, msg_total = 2, msg_total_bytes = 42.
UserMessageCounted ==
    [][(/\ hist'.calls = hist.calls + 1
        /\ last_call'.op \in {"count_request", "count_response"}) =>
          /\ stats' = [stats EXCEPT ![ExpectedUserCounter[last_call'.arg]] = @ + 1,
                                    !.msg_total = @ + 1]
          /\ ~panicked']_vars

\* C13 witness: the state after count_request(Get), count_response(GetSuccess)
\* and count_bytes(42) on a fresh Stats
GetScenario ==
    /\ hist.calls = 3
    /\ stats = [StatsDefault EXCEPT !.msg_get = 1, !.msg_get_success = 1,
                                    !.msg_total = 2, !.msg_total_bytes = <<42, 0, 0, 0>>]

\* C14: count_direct_message adds one to msg_total for every kind; NodeIdentify,
\* NewNode and ConnectionUnneeded raise their own counter, every other kind
\* raises msg_other only.
DirectMessageCounted ==
    [][(/\ hist'.calls = hist.calls + 1
        /\ last_call'.op = "count_direct_message") =>
          LET own == CASE last_call'.arg = "NodeIdentify" -> "msg_direct_node_identify"
                       [] last_call'.arg = "NewNode" -> "msg_direct_new_node"
                       [] last_call'.arg = "ConnectionUnneeded" ->
                             "msg_direct_connection_unneeded"
                       [] OTHER -> "msg_other"
          IN /\ stats' = [stats EXCEPT ![own] = @ + 1, !.msg_total = @ + 1]
             /\ ~panicked']_vars

\* C14 witness: a kind with its own counter and a kind without were counted
DirectKindsCounted ==
    /\ stats.msg_direct_connection_unneeded = 1
    /\ stats.msg_other = 1
    /\ stats.msg_total = 2
    /\ last_call.op = "count_direct_message"

\* C15 as stated: count_bytes(len) adds exactly len to msg_total_bytes and
\* changes nothing else, and no other call changes msg_total_bytes.
BytesOrthogonal ==
    [][(hist'.calls = hist.calls + 1) =>
          IF last_call'.op = "count_bytes"
          THEN LET r == Add64(stats.msg_total_bytes, last_call'.arg)
               IN /\ ~r.overflow
                  /\ stats' = [stats EXCEPT !.msg_total_bytes = r.sum]
                  /\ ~panicked'
          ELSE stats'.msg_total_bytes = stats.msg_total_bytes]_vars

\* C18 as stated (the doc comment of increment_msg_total): a snapshot is logged
\* whenever the incremented total is divisible by 100, at 100, 200, 300, ...
SnapshotEvery100 ==
    /\ Len(stats_log.snapshots) = stats.msg_total \div 100
    /\ \A i \in 1..Len(stats_log.snapshots) : stats_log.snapshots[i] = 100 * i

\* C19: msg_total is the sum of the three direct counters, the six request
\* counters (refresh included), the ten response counters, the eight
\* routing-message counters and msg_other; routes, unacked_msgs and
\* msg_total_bytes take no part in the sum.
TotalIsSumOfKinds ==
    LET direct == stats.msg_direct_node_identify + stats.msg_direct_new_node
                  + stats.msg_direct_connection_unneeded
        request == stats.msg_refresh + stats.msg_get + stats.msg_put + stats.msg_post
                   + stats.msg_delete + stats.msg_get_account_info
        response == stats.msg_get_success + stats.msg_get_failure
                    + stats.msg_put_success + stats.msg_put_failure
                    + stats.msg_post_success + stats.msg_post_failure
                    + stats.msg_delete_success + stats.msg_delete_failure
                    + stats.msg_get_account_info_success
                    + stats.msg_get_account_info_failure
        routing == stats.msg_get_node_name + stats.msg_expect_close_node
                   + stats.msg_get_close_group + stats.msg_connection_info
                   + stats.msg_get_close_group_rsp + stats.msg_get_node_name_rsp
                   + stats.msg_ack + stats.msg_hash
    IN stats.msg_total = direct + request + response + routing + stats.msg_other

\* C19 witness: a routing message and an uncounted kind of direct message
\* were counted, and an unacknowledged message beside them
SumWithSideCounter ==
    /\ stats.msg_total = 2
    /\ stats.msg_ack = 1
    /\ stats.msg_other = 1
    /\ stats.unacked_msgs = 1

\* C20: a snapshot is emitted only by a step that raises msg_total, and then
\* for the new total, not reported before; count_unacked, count_route,
\* count_bytes and count_routing_message given a fragment change neither
\* msg_total nor the snapshots, also at msg_total 0 and at a multiple of 500.
SnapshotOnlyOnIncrease ==
    [][/\ (stats_log'.snapshots # stats_log.snapshots) =>
             /\ stats'.msg_total = stats.msg_total + 1
             /\ stats_log'.snapshots = Append(stats_log.snapshots, stats'.msg_total)
             /\ \A i \in 1..Len(stats_log.snapshots) :
                   stats_log.snapshots[i] # stats'.msg_total
       /\ (/\ hist'.calls = hist.calls + 1
           /\ \/ last_call'.op \in {"count_unacked", "count_route", "count_bytes"}
              \/ /\ last_call'.op = "count_routing_message"
                 /\ last_call'.arg = "UserMessagePart") =>
             /\ stats'.msg_total = stats.msg_total
             /\ stats_log'.snapshots = stats_log.snapshots]_vars

\* C20 witness: count_unacked was called with the total at 500, already
\* reported once
SideCallAtMultiple ==
    /\ last_call.op = "count_unacked"
    /\ stats.msg_total = 500
    /\ stats.unacked_msgs = 1
    /\ stats_log.snapshots = <<500>>

====
